---- MODULE Spec2Model ----
(***************************************************************************)
(* A model of teetty's spawn engine (src/spawn.rs): PTY allocation, the    *)
(* raw-mode guard, fork/exec, the SIGWINCH forwarder thread, the relay     *)
(* loop (communication_loop) and the exit status translation.              *)
(*                                                                         *)
(* Three sequential agents interleave: the parent (spawn up to and         *)
(* through communication_loop), the forked child (spawn after the fork, up *)
(* to execvp) and the forwarder thread of sigwinch_passthrough.  Syscall   *)
(* outcomes are the environment's choice.                                  *)
(*                                                                         *)
(* Byte streams are modelled by position: the n-th byte a source delivers  *)
(* is the number n, so loss, duplication and reordering are all visible.   *)
(***************************************************************************)
EXTENDS Integers, Sequences, FiniteSets, TLC

\* ------------------------------------------------------------- bounds
\* Reads that change the session's history (non-empty reads, and stdin EOFs
\* that put an end-of-file character on the master).
MaxReads == 1
\* Resizes of the real terminal during the session.
MaxResize == 1

\* ---------------------------------------------------------- constants
\* attrs.control_chars[VEOF]: the PTY's end-of-file character (Ctrl-D).
EofChar == 4

\* Errno classes.  continue_on_eintr retries exactly the first two.
Transient == {"EINTR", "EAGAIN"}
Hard == {"EIO"}
Errnos == Transient \cup Hard
\* The errnos sampled where `?` hands every error back: one of each class.
\* A write(2) is interrupted; a read of the O_NONBLOCK FIFO finds nothing;
\* write_all retries EINTR itself and can only surface the others.
WriteErrs == {"EINTR", "EIO"}
FileReadErrs == {"EAGAIN", "EIO"}
WriteAllErrs == {"EAGAIN", "EIO"}

\* Exit codes and signals the child may end with (WaitStatus samples).
ExitCodes == {0, 2, 255}
SignalNos == {9}
WaitStatuses ==
    {<<"Exited", n>> : n \in ExitCodes} \cup
    {<<"Signaled", s>> : s \in SignalNos} \cup
    {<<"Stopped", 19>>}

\* The byte counts a non-empty read may return (at most buf's 4096 in the
\* source): one byte, or more than one so that a write can fall short.
ReadLens == {1, 2}

\* Window sizes of the real terminal; NoSize is Option::None.
NoSize == "none"
WinSizes == {"80x24", "100x30"}

VARIABLES
    opts,         \* SpawnOptions: which paths are given, and the flags
    stdinIsTty,   \* environment: is the real stdin a terminal (tcgetattr succeeds)
    winszOk,      \* environment: would TIOCGWINSZ on the real stdin succeed
    ppc,          \* parent: position in spawn / communication_loop
    ret,          \* parent: what spawn returned, [kind, val, at]
    term_attrs,   \* Option<Termios> as is_some()
    winsize,      \* Option<Winsize> read at startup
    restoreTerm,  \* the RestoreTerm guard exists (in the spawning process)
    termMode,     \* mode of the real terminal: "orig" or "raw"
    restores,     \* times the saved attributes were re-applied to the real terminal
    ptyRestores,  \* times a guard's drop applied them to the PTY slave instead
    fds,          \* PTY descriptors per process: "none", "open", "closed",
                  \* "closed_twice", or "gone" once the process has ended
    fifo,         \* the control path: "absent", "existing" (there before the
                  \* session) or "created" (made by this session's mkfifo)
    mkfifoRes,    \* what mkfifo_atomic returned: "none", "Ok" or an errno
    forks,        \* successful forks
    cpc,          \* child: position after the fork
    childStdin,   \* what fd 0 of the child refers to: "real", "pty", "gone"
    reaped,       \* waitpid has collected the child
    fpc,          \* forwarder thread position
    fwin,         \* forwarder: the winsize it read (NoSize outside the loop body)
    sigPending,   \* a SIGWINCH is queued for the forwarder
    resizes,      \* resizes so far
    realWin,      \* current size of the real terminal
    ptyWin,       \* current size of the PTY
    winchSent,    \* a killpg has delivered SIGWINCH to the PTY's foreground group
    fwdAfterClose,\* forwarder operations on `master` after the parent closed it
    out_file,     \* "none", "open", or the errno of the failed open
    in_file,      \* "none", "open", or the errno of the failed open
    logFile,      \* content of the log file (bytes)
    read_stdin,   \* communication_loop's flag
    ready,        \* read_fds after select
    buf,          \* the chunk last read from the master
    reads,        \* history-changing reads so far
    stdinRead,    \* bytes read from stdin so far (count)
    ctlRead,      \* bytes read from the control input so far (count)
    outRead,      \* bytes read from the master so far (count)
    masterW,      \* bytes written to the master: <<source, byte>>
    logW,         \* chunks appended to the log during the session
    stdoutW,      \* chunks written to stdout
    masterEOF,    \* a master read returned 0
    arm,          \* the arm the loop has just taken, where it leaves no other
                  \* trace: <<"timeout", "none">> after n == 0, <<"eof", attrs>>
                  \* after a zero-length stdin read that found tcgetattr(master)
                  \* answering attrs; <<"none", "none">> otherwise
    wstatus       \* the WaitStatus waitpid returned, <<"none", 0>> before

vars == <<opts, stdinIsTty, winszOk, ppc, ret, term_attrs, winsize, restoreTerm, termMode,
          restores, ptyRestores, fds, fifo, mkfifoRes, forks, cpc, childStdin, reaped, fpc, fwin, sigPending, resizes, realWin, ptyWin,
          winchSent, fwdAfterClose, out_file, in_file, logFile, read_stdin, ready,
          buf, reads, stdinRead, ctlRead, outRead, masterW, logW, stdoutW,
          masterEOF, arm, wstatus>>

optVars == <<opts, stdinIsTty, winszOk>>
setupVars == <<term_attrs, winsize, restoreTerm, fifo, mkfifoRes, forks, out_file,
               in_file>>
ioVars == <<reads, stdinRead, ctlRead, outRead, masterW, logFile, logW, stdoutW>>
loopVars == <<read_stdin, ready, buf, masterEOF, arm, wstatus, reaped>>
childVars == <<cpc, childStdin>>
fwdVars == <<fpc, fwin, sigPending, resizes, realWin, winchSent, fwdAfterClose>>
termVars == <<termMode, restores, ptyRestores>>

\* ------------------------------------------------------------ helpers
RECURSIVE Flatten(_)
Flatten(chunks) ==
    IF chunks = <<>> THEN <<>> ELSE Head(chunks) \o Flatten(Tail(chunks))

\* The next n bytes of a stream of which `pos` were delivered already.
Bytes(pos, n) == [i \in 1..n |-> pos + i]

Tag(src, bytes) == [i \in 1..Len(bytes) |-> <<src, bytes[i]>>]

RECURSIVE FromSrc(_, _)
FromSrc(w, src) ==
    IF w = <<>> THEN <<>>
    ELSE IF Head(w)[1] = src THEN <<Head(w)[2]>> \o FromSrc(Tail(w), src)
    ELSE FromSrc(Tail(w), src)

IsPrefix(s, t) == Len(s) <= Len(t) /\ SubSeq(t, 1, Len(s)) = s

NoArm == <<"none", "none">>

OptConfigs ==
    {o \in [out_path : BOOLEAN, truncate_out : BOOLEAN, no_flush : BOOLEAN,
            in_path : BOOLEAN] :
        \* the two flags only matter with a log path, and no_flush acts the
        \* same whatever the other options are
        /\ o.out_path \/ (~o.truncate_out /\ ~o.no_flush)
        /\ o.no_flush => (~o.truncate_out /\ ~o.in_path)}

PriorLog == <<99>>

Init ==
    /\ opts \in OptConfigs
    /\ stdinIsTty \in BOOLEAN
    /\ winszOk \in BOOLEAN
    /\ ppc = "tcgetattr"
    /\ ret = [kind |-> "none", val |-> 0, at |-> "none"]
    /\ term_attrs = FALSE
    /\ winsize = NoSize
    /\ restoreTerm = FALSE
    /\ termMode = "orig"
    /\ restores = 0
    /\ ptyRestores = 0
    /\ fds = [d \in {"pm", "ps", "cm", "cs"} |-> "none"]
    /\ fifo \in IF opts.in_path THEN {"absent", "existing"} ELSE {"absent"}
    /\ mkfifoRes = "none"
    /\ forks = 0
    /\ cpc = "none"
    /\ childStdin = "real"
    /\ reaped = FALSE
    /\ fpc = "off"
    /\ fwin = NoSize
    /\ sigPending = FALSE
    /\ resizes = 0
    /\ realWin = "80x24"
    /\ ptyWin = NoSize
    /\ winchSent = FALSE
    /\ fwdAfterClose = FALSE
    /\ out_file = "none"
    /\ in_file = "none"
    /\ logFile = PriorLog
    /\ read_stdin = TRUE
    /\ ready = {}
    /\ buf = <<>>
    /\ reads = 0
    /\ stdinRead = 0
    /\ ctlRead = 0
    /\ outRead = 0
    /\ masterW = <<>>
    /\ logW = <<>>
    /\ stdoutW = <<>>
    /\ masterEOF = FALSE
    /\ arm = NoArm
    /\ wstatus = <<"none", 0>>

\* ------------------------------------------------- scoped release (Drop)
\* RestoreTerm::drop: tcsetattr(STDIN_FILENO, TCSAFLUSH, saved).ok(), run when
\* spawn's frame unwinds.  `target` is what fd 0 of the dropping process is.
RestoreTermDrop(hasGuard, target) ==
    IF hasGuard /\ target = "real"
    THEN /\ restores' = restores + 1
         /\ termMode' = "orig"
         /\ ptyRestores' = ptyRestores
    ELSE IF hasGuard
    THEN /\ ptyRestores' = ptyRestores + 1
         /\ UNCHANGED <<restores, termMode>>
    ELSE UNCHANGED <<restores, termMode, ptyRestores>>

\* spawn returns in the parent: Ok(code) or Err(errno) raised at `at`; the
\* locals of spawn are dropped, the guard among them.
Return(kind, val, at) ==
    /\ ppc' = "returned"
    /\ ret' = [kind |-> kind, val |-> val, at |-> at]
    /\ RestoreTermDrop(restoreTerm, "real")

\* close(fd): the descriptor is released whether or not close reports an error.
Close(d) ==
    fds' = [fds EXCEPT ![d] = IF @ = "open" THEN "closed" ELSE "closed_twice"]

\* get_winsize(STDIN_FILENO): Some(size) when the ioctl succeeds.
get_winsize == IF winszOk THEN realWin ELSE NoSize

\* A variant that takes the terminal branch whatever tcgetattr answered.
is_some_always(attrs) == TRUE

\* term_attrs.is_some(), and the Some arm of term_attrs.as_ref().and_then(..)
\* and of term_attrs.as_ref().map(..): the terminal branch is taken only when
\* the attributes were read.
is_some(attrs) == attrs

\* --------------------------------------------------------- spawn, setup
\* let term_attrs = tcgetattr(STDIN_FILENO).ok();
\* let winsize = term_attrs.as_ref().and_then(|_| get_winsize(STDIN_FILENO));
P_Tcgetattr ==
    /\ ppc = "tcgetattr"
    /\ term_attrs' = stdinIsTty
    /\ winsize' = IF is_some(term_attrs') THEN get_winsize ELSE NoSize
    /\ ppc' = "openpty"
    /\ UNCHANGED <<optVars, ret, restoreTerm, termVars, fds, fifo, mkfifoRes,
                   forks, out_file, in_file, childVars, fwdVars, ptyWin, ioVars,
                   loopVars>>

\* A variant without the `?`: a failed openpty is not looked at.
P_Openpty_unchecked ==
    /\ ppc = "openpty"
    /\ \/ /\ fds' = [fds EXCEPT !["pm"] = "open", !["ps"] = "open"]
          /\ ptyWin' = winsize
       \/ UNCHANGED <<fds, ptyWin>>
    /\ ppc' = "rawmode"
    /\ UNCHANGED <<optVars, setupVars, ret, termVars, childVars, fwdVars, ioVars,
                   loopVars>>

\* let pty = openpty(&winsize, &term_attrs)?;
P_Openpty ==
    /\ ppc = "openpty"
    /\ \/ /\ fds' = [fds EXCEPT !["pm"] = "open", !["ps"] = "open"]
          /\ ptyWin' = winsize
          /\ ppc' = "rawmode"
          /\ UNCHANGED <<ret, termVars>>
       \/ /\ Return("err", "EIO", "openpty")
          /\ UNCHANGED <<fds, ptyWin>>
    /\ UNCHANGED <<optVars, setupVars, childVars, fwdVars, ioVars, loopVars>>

\* let _restore_term = term_attrs.as_ref().map(|term_attrs| { cfmakeraw ...;
\*     tcsetattr(STDIN_FILENO, TCSAFLUSH, &raw_attrs).ok(); RestoreTerm(..) });
P_RawMode ==
    /\ ppc = "rawmode"
    /\ IF is_some(term_attrs)
       THEN termMode' = "raw" /\ restoreTerm' = TRUE
       ELSE UNCHANGED <<termMode, restoreTerm>>
    /\ ppc' = "mkfifo"
    /\ UNCHANGED <<optVars, ret, term_attrs, winsize, restores, ptyRestores, fds,
                   fifo, mkfifoRes, forks, out_file, in_file, childVars,
                   fwdVars, ptyWin, ioVars, loopVars>>

\* mkfifo(path, S_IRUSR | S_IWUSR) as the kernel answers it for a path in
\* state `st`: created, already there, or refused.
mkfifo(st) ==
    IF st = "absent" THEN {"Ok", "EACCES"} ELSE {"EEXIST", "EACCES"}

\* A variant that forgets the EEXIST arm.
mkfifo_atomic_strict(res) == res

\* match mkfifo(..) { Ok(()) | Err(Errno::EEXIST) => Ok(()), Err(err) => Err(err) }
mkfifo_atomic(res) ==
    IF res \in {"Ok", "EEXIST"} THEN "Ok" ELSE res

\* if let Some(ref path) = opts.in_path { mkfifo_atomic(&path)?; }
P_Mkfifo ==
    /\ ppc = "mkfifo"
    /\ IF opts.in_path
       THEN \E res \in mkfifo(fifo) :
              /\ fifo' = IF res = "Ok" THEN "created" ELSE fifo
              /\ mkfifoRes' = mkfifo_atomic(res)
              /\ IF mkfifo_atomic(res) = "Ok"
                 THEN ppc' = "fork" /\ UNCHANGED <<ret, termVars>>
                 ELSE Return("err", mkfifo_atomic(res), "mkfifo")
       ELSE /\ ppc' = "fork"
            /\ UNCHANGED <<fifo, mkfifoRes, ret, termVars>>
    /\ UNCHANGED <<optVars, term_attrs, winsize, restoreTerm, forks, out_file, in_file,
                   fds, childVars, fwdVars, ptyWin, ioVars, loopVars>>

\* if let ForkResult::Parent { child } = unsafe { fork()? } { ... }
\* The child starts with copies of both PTY descriptors and of the guard.
P_Fork ==
    /\ ppc = "fork"
    /\ \/ /\ forks' = forks + 1
          /\ cpc' = "c_close"
          /\ fds' = [fds EXCEPT !["cm"] = "open", !["cs"] = "open"]
          /\ ppc' = "close_slave"
          /\ UNCHANGED <<ret, termVars>>
       \/ /\ Return("err", "EAGAIN", "fork")
          /\ UNCHANGED <<forks, cpc, fds>>
    /\ UNCHANGED <<optVars, term_attrs, winsize, restoreTerm, fifo, mkfifoRes, out_file,
                   in_file, childStdin, fwdVars, ptyWin, ioVars, loopVars>>

\* close(pty.slave)?;
P_CloseSlave ==
    /\ ppc = "close_slave"
    /\ Close("ps")
    /\ \/ /\ ppc' = "sigwinch"
          /\ UNCHANGED <<ret, termVars>>
       \/ Return("err", "EIO", "close_slave")
    /\ UNCHANGED <<optVars, setupVars, childVars, fwdVars, ptyWin, ioVars, loopVars>>

\* if term_attrs.is_some() { sigwinch_passthrough(pty.master)?; }
\* sigwinch_passthrough spawns the thread and returns Ok(()); the thread's
\* first act, Signals::new(&[SIGWINCH]).unwrap(), is taken with its start.
P_Sigwinch ==
    /\ ppc = "sigwinch"
    /\ fpc' = IF is_some(term_attrs) THEN "idle" ELSE fpc
    /\ ppc' = "open_out"
    /\ UNCHANGED <<optVars, ret, setupVars, termVars, fds, childVars, fwin,
                   sigPending, resizes, realWin, winchSent, fwdAfterClose, ptyWin,
                   ioVars, loopVars>>

\* std's OpenOptions::open first validates the option set (get_creation_mode):
\* with append(true), truncate(true) is refused as EINVAL unless create_new.
get_creation_mode(o) ==
    IF o.append
    THEN IF o.truncate /\ ~o.create_new THEN "EINVAL" ELSE "Ok"
    ELSE IF o.write
    THEN "Ok"
    ELSE IF o.truncate \/ o.create \/ o.create_new THEN "EINVAL" ELSE "Ok"

\* File::options().append(true).create(true).truncate(opts.truncate_out)
OutOptions ==
    [write |-> FALSE, append |-> TRUE, create |-> TRUE, create_new |-> FALSE,
     truncate |-> opts.truncate_out]

\* What open() may answer for the log path, and what it leaves in the file.
OpenOutcomes(o) ==
    IF get_creation_mode(o) = "Ok" THEN {"Ok", "EACCES"} ELSE {get_creation_mode(o)}

OpenContent(o, res, content) ==
    IF res = "Ok" /\ o.truncate THEN <<>> ELSE content

\* let mut out_file = match opts.out_path { Some(p) => Some(File::options()
\*     .append(true).create(true).truncate(opts.truncate_out).open(p)?), None => None };
P_OpenOut ==
    /\ ppc = "open_out"
    /\ IF opts.out_path
       THEN \E res \in OpenOutcomes(OutOptions) :
              /\ logFile' = OpenContent(OutOptions, res, logFile)
              /\ out_file' = IF res = "Ok" THEN "open" ELSE res
              /\ IF res = "Ok"
                 THEN ppc' = "open_in" /\ UNCHANGED <<ret, termVars>>
                 ELSE Return("err", res, "open_out")
       ELSE /\ ppc' = "open_in"
            /\ UNCHANGED <<logFile, out_file, ret, termVars>>
    /\ UNCHANGED <<optVars, term_attrs, winsize, restoreTerm, fifo, mkfifoRes, forks,
                   in_file, fds, childVars, fwdVars, ptyWin, reads, stdinRead,
                   ctlRead, outRead, masterW, logW, stdoutW, loopVars>>

\* let mut in_file = match opts.in_path { Some(p) => Some(File::options()
\*     .read(true).custom_flags(O_NONBLOCK).open(p)?), None => None };
P_OpenIn ==
    /\ ppc = "open_in"
    /\ IF opts.in_path
       THEN \E res \in {"Ok", "EACCES"} :
              /\ in_file' = IF res = "Ok" THEN "open" ELSE res
              /\ IF res = "Ok"
                 THEN ppc' = "select" /\ UNCHANGED <<ret, termVars>>
                 ELSE Return("err", res, "open_in")
       ELSE /\ ppc' = "select"
            /\ UNCHANGED <<in_file, ret, termVars>>
    /\ UNCHANGED <<optVars, term_attrs, winsize, restoreTerm, fifo, mkfifoRes, forks,
                   out_file, fds, childVars, fwdVars, ptyWin, ioVars, loopVars>>

\* ------------------------------------------------- communication_loop
is_tty == is_some(term_attrs)
flush == ~opts.no_flush

\* A variant that never sets the flag again.
ReadStdinFlag_keep(rs, tty) == rs

\* if !read_stdin && is_tty { read_stdin = true; }
ReadStdinFlag(rs, tty) == IF ~rs /\ tty THEN TRUE ELSE rs

\* read_fds as built at the top of a cycle.
Interest(rs) ==
    {"master"} \cup (IF rs THEN {"stdin"} ELSE {})
               \cup (IF in_file = "open" THEN {"ctl"} ELSE {})

\* The three `if read_fds.contains(..)` blocks run in the order stdin (1),
\* control input (2), master (3); k is the first block still to be considered.
Dispatch(r, k) ==
    IF k <= 1 /\ "stdin" \in r THEN "rd_stdin"
    ELSE IF k <= 2 /\ "ctl" \in r THEN "rd_ctl"
    ELSE IF "master" \in r THEN "rd_master"
    ELSE "select"

\* read_fds is only looked at for the blocks still ahead.
Ahead(r, k) ==
    r \ ((IF k > 1 THEN {"stdin"} ELSE {}) \cup (IF k > 2 THEN {"ctl"} ELSE {}))

Goto(r, k) ==
    /\ ppc' = Dispatch(r, k)
    /\ ready' = IF Dispatch(r, k) = "select" THEN {} ELSE Ahead(r, k)

\* `continue`: back to the top of the loop.
Continue ==
    /\ ppc' = "select"
    /\ ready' = {}

\* A variant that retries EINTR alone.
continue_on_eintr_only(e) == IF e = "EINTR" THEN "continue" ELSE "return"

\* continue_on_eintr!: Err(EINTR | EAGAIN) => continue, Err(err) => return Err.
continue_on_eintr(e) == IF e \in {"EINTR", "EAGAIN"} THEN "continue" ELSE "return"

\* write(fd, data) when the kernel accepts k of the bytes: the count it returns
\* is dropped by every caller, so these are the bytes that reach fd.
write(data, k) == SubSeq(data, 1, k)

\* A variant in which the timeout ends the session.
timeout_arm_abort == "return"

\* if n == 0 { continue; }
timeout_arm == "continue"

\* select(None, Some(&mut read_fds), None, None, Some(&mut timeout)), n == 0 => continue
P_Select ==
    /\ ppc = "select"
    /\ read_stdin' = ReadStdinFlag(read_stdin, is_tty)
    /\ \/ \E e \in Errnos :
            /\ IF continue_on_eintr(e) = "continue"
               THEN Continue /\ UNCHANGED <<ret, termVars>>
               ELSE Return("err", e, "select") /\ ready' = {}
            /\ arm' = NoArm
       \/ \* timeout: n == 0
          /\ arm' = <<"timeout", "none">>
          /\ IF timeout_arm = "continue"
             THEN Continue /\ UNCHANGED <<ret, termVars>>
             ELSE Return("err", "ETIMEDOUT", "select") /\ ready' = {}
       \/ \E r \in SUBSET Interest(read_stdin') :
            /\ r # {}
            /\ Goto(r, 1)
            /\ arm' = NoArm
            /\ UNCHANGED <<ret, termVars>>
    /\ UNCHANGED <<optVars, setupVars, fds, childVars, fwdVars, ptyWin, ioVars,
                   buf, masterEOF, wstatus, reaped>>

\* What tcgetattr(master) may answer: an error, or attributes without or
\* with ICANON among the local flags.
MasterAttrs == {"err", "raw", "icanon"}

\* A variant that forgets to look at ICANON.
WritesEof_any_attrs(attrs) == attrs # "err"

\* if let Ok(attrs) = tcgetattr(master) { if attrs.local_flags.contains(ICANON) {
WritesEof(attrs) == attrs = "icanon"

\* if read_fds.contains(STDIN_FILENO) { match continue_on_eintr!(read(STDIN_FILENO, ..)) {
\*   0 => { if let Ok(attrs) = tcgetattr(master) { if ICANON { write(master, &[VEOF])?; } }
\*          read_stdin = false; }
\*   n => { write(master, &buf[..n])?; } } }
P_ReadStdin ==
    /\ ppc = "rd_stdin"
    /\ \/ \E e \in Errnos :
            /\ IF continue_on_eintr(e) = "continue"
               THEN Continue /\ UNCHANGED <<ret, termVars>>
               ELSE Return("err", e, "rd_stdin") /\ ready' = {}
            /\ UNCHANGED <<read_stdin, arm, ioVars>>
       \/ \* read returned 0
          /\ \E attrs \in MasterAttrs :
             /\ arm' = <<"eof", attrs>>
             /\ IF WritesEof(attrs)
               THEN /\ reads < MaxReads
                    /\ reads' = reads + 1
                    /\ \/ /\ masterW' = masterW \o Tag("eof", write(<<EofChar>>, 1))
                          /\ read_stdin' = FALSE
                          /\ Goto(ready, 2)
                          /\ UNCHANGED <<ret, termVars>>
                       \/ \E e \in WriteErrs :
                            /\ Return("err", e, "wr_eof")
                            /\ ready' = {}
                            /\ UNCHANGED <<masterW, read_stdin>>
               ELSE /\ read_stdin' = FALSE
                    /\ Goto(ready, 2)
                    /\ UNCHANGED <<reads, masterW, ret, termVars>>
          /\ UNCHANGED <<stdinRead, ctlRead, outRead, logFile, logW, stdoutW>>
       \/ \* read returned n > 0
          /\ reads < MaxReads
          /\ reads' = reads + 1
          /\ UNCHANGED arm
          /\ \E n \in ReadLens :
               /\ stdinRead' = stdinRead + n
               /\ \/ \E k \in 1..n :
                       /\ masterW' = masterW \o Tag("stdin", write(Bytes(stdinRead, n), k))
                       /\ Goto(ready, 2)
                       /\ UNCHANGED <<ret, termVars>>
                  \/ \E e \in WriteErrs :
                       /\ Return("err", e, "wr_master_stdin")
                       /\ ready' = {}
                       /\ UNCHANGED masterW
          /\ UNCHANGED <<read_stdin, ctlRead, outRead, logFile, logW, stdoutW>>
    /\ UNCHANGED <<optVars, setupVars, fds, childVars, fwdVars, ptyWin, buf,
                   masterEOF, wstatus, reaped>>

\* if let Some(ref mut f) = in_file { if read_fds.contains(f.as_raw_fd()) {
\*   let n = f.read(&mut buf)?; if n > 0 { write(master, &buf[..n])?; } } }
\* File::read hands every errno back, EINTR and EAGAIN included.
P_ReadCtl ==
    /\ ppc = "rd_ctl"
    /\ \/ \E e \in FileReadErrs :
            /\ Return("err", e, "rd_ctl")
            /\ ready' = {}
            /\ UNCHANGED ioVars
       \/ \* nothing pending: n == 0
          /\ Goto(ready, 3)
          /\ UNCHANGED <<ioVars, ret, termVars>>
       \/ /\ reads < MaxReads
          /\ reads' = reads + 1
          /\ \E n \in ReadLens :
               /\ ctlRead' = ctlRead + n
               /\ \/ \E k \in 1..n :
                       /\ masterW' = masterW \o Tag("ctl", write(Bytes(ctlRead, n), k))
                       /\ Goto(ready, 3)
                       /\ UNCHANGED <<ret, termVars>>
                  \/ \E e \in WriteErrs :
                       /\ Return("err", e, "wr_master_ctl")
                       /\ ready' = {}
                       /\ UNCHANGED masterW
          /\ UNCHANGED <<stdinRead, outRead, logFile, logW, stdoutW>>
    /\ arm' = NoArm
    /\ UNCHANGED <<optVars, setupVars, fds, childVars, fwdVars, ptyWin,
                   read_stdin, buf, masterEOF, wstatus, reaped>>

\* The slave side is held open by the child until it has exec'ed or ended.
SlaveHeld == cpc \in {"c_close", "c_returned"}

\* if read_fds.contains(master) { match continue_on_eintr!(read(master, &mut buf)) {
\*   0 => break, n => { ... } } }
P_ReadMaster ==
    /\ ppc = "rd_master"
    /\ \/ \E e \in Errnos :
            /\ IF continue_on_eintr(e) = "continue"
               THEN Continue /\ UNCHANGED <<ret, termVars>>
               ELSE Return("err", e, "rd_master") /\ ready' = {}
            /\ UNCHANGED <<buf, masterEOF, reads, outRead>>
       \/ \* 0 => break
          /\ ~SlaveHeld
          /\ masterEOF' = TRUE
          /\ ppc' = "waitpid"
          /\ ready' = {}
          /\ UNCHANGED <<buf, reads, outRead, ret, termVars>>
       \/ /\ reads < MaxReads
          /\ reads' = reads + 1
          /\ \E n \in ReadLens :
               /\ buf' = Bytes(outRead, n)
               /\ outRead' = outRead + n
          /\ ppc' = IF out_file = "open" THEN "wr_log" ELSE "wr_stdout"
          /\ UNCHANGED <<ready, masterEOF, ret, termVars>>
    /\ arm' = NoArm
    /\ UNCHANGED <<optVars, setupVars, fds, childVars, fwdVars, ptyWin,
                   read_stdin, stdinRead, ctlRead, masterW, logFile, logW, stdoutW,
                   wstatus, reaped>>

\* logfile.write_all(&buf[..n])?; if flush { logfile.flush()?; }
\* write_all loops over write and swallows EINTR; when it fails, a prefix of
\* the chunk may already be in the file.  File::flush does nothing.
P_WriteLog ==
    /\ ppc = "wr_log"
    /\ \/ /\ logFile' = logFile \o buf
          /\ logW' = Append(logW, buf)
          /\ ppc' = "wr_stdout"
          /\ UNCHANGED <<ready, buf, ret, termVars>>
       \/ \E k \in 0..(Len(buf) - 1), e \in WriteAllErrs :
            /\ logFile' = logFile \o write(buf, k)
            /\ logW' = IF k > 0 THEN Append(logW, write(buf, k)) ELSE logW
            /\ Return("err", e, "wr_log")
            /\ ready' = {}
            /\ buf' = <<>>
    /\ UNCHANGED <<optVars, setupVars, fds, childVars, fwdVars, ptyWin,
                   read_stdin, reads, stdinRead, ctlRead, outRead, masterW, stdoutW,
                   masterEOF, arm, wstatus, reaped>>

\* write(STDOUT_FILENO, &buf[..n])?;
P_WriteStdout ==
    /\ ppc = "wr_stdout"
    /\ \/ \E k \in 1..Len(buf) :
            /\ stdoutW' = Append(stdoutW, write(buf, k))
            /\ Continue
            /\ UNCHANGED <<ret, termVars>>
       \/ \E e \in WriteErrs :
            /\ Return("err", e, "wr_stdout")
            /\ ready' = {}
            /\ UNCHANGED stdoutW
    /\ buf' = <<>>
    /\ UNCHANGED <<optVars, setupVars, fds, childVars, fwdVars, ptyWin,
                   read_stdin, reads, stdinRead, ctlRead, outRead, masterW, logFile,
                   logW, masterEOF, arm, wstatus, reaped>>

\* A variant that reports the bare signal number.
ExitCode_bare_signal(ws) ==
    IF ws[1] \in {"Exited", "Signaled"} THEN ws[2] ELSE 1

\* match waitpid(child, None)? { Exited(_, status) => status,
\*     Signaled(_, signal, _) => 128 + signal as i32, _ => 1 }
ExitCode(ws) ==
    IF ws[1] = "Exited" THEN ws[2]
    ELSE IF ws[1] = "Signaled" THEN 128 + ws[2]
    ELSE 1

\* waitpid blocks until the child has ended.
P_Waitpid ==
    /\ ppc = "waitpid"
    /\ cpc = "c_dead"
    /\ \/ \E ws \in WaitStatuses :
            /\ wstatus' = ws
            /\ reaped' = TRUE
            /\ ppc' = "close_master"
            /\ UNCHANGED <<ret, termVars>>
       \/ /\ Return("err", "EINTR", "waitpid")
          /\ UNCHANGED <<wstatus, reaped>>
    /\ UNCHANGED <<optVars, setupVars, fds, childVars, fwdVars, ptyWin, ioVars,
                   read_stdin, ready, buf, masterEOF, arm>>

\* close(master)?; Ok(code)
P_CloseMaster ==
    /\ ppc = "close_master"
    /\ Close("pm")
    /\ \/ Return("ok", ExitCode(wstatus), "close_master")
       \/ Return("err", "EIO", "close_master")
    /\ UNCHANGED <<optVars, setupVars, childVars, fwdVars, ptyWin, ioVars, loopVars>>

\* ------------------------------------------------ spawn, in the child
\* spawn returns Err in the child: its copy of the guard is dropped, and
\* tcsetattr goes to whatever the child's fd 0 is by then.
ChildReturn ==
    /\ cpc' = "c_returned"
    /\ RestoreTermDrop(term_attrs, childStdin)

\* close(pty.master)?; unsafe { login_tty(pty.slave); } execvp(&args[0], &args)?;
\* The child's way from the fork to the new image, or to spawn's Err.  The
\* result of login_tty is not looked at; when it succeeds fds 0..2 are the
\* slave and the slave descriptor itself is closed.
C_Exec ==
    /\ cpc = "c_close"
    /\ \/ \* close(pty.master) fails: spawn returns in the child
          /\ Close("cm")
          /\ ChildReturn
          /\ UNCHANGED childStdin
       \/ \E login \in BOOLEAN, exec \in BOOLEAN :
            /\ fds' = [fds EXCEPT !["cm"] = "closed",
                                  !["cs"] = IF login THEN "closed" ELSE @]
            /\ childStdin' = IF login THEN "pty" ELSE childStdin
            /\ IF exec
               THEN cpc' = "c_running" /\ UNCHANGED termVars
               ELSE /\ cpc' = "c_returned"
                    /\ RestoreTermDrop(term_attrs, childStdin')
    /\ UNCHANGED <<optVars, setupVars, ppc, ret, fwdVars, ptyWin, ioVars, loopVars>>

\* The child process ends: the target exits or is killed, or the child's main
\* returns after spawn's error.
C_Exit ==
    /\ cpc \in {"c_running", "c_returned"}
    /\ cpc' = "c_dead"
    /\ childStdin' = "gone"
    /\ fds' = [fds EXCEPT !["cm"] = "gone", !["cs"] = "gone"]
    /\ UNCHANGED <<optVars, setupVars, ppc, ret, termVars, fwdVars, ptyWin, ioVars,
                   loopVars>>

\* ------------------------------------------- sigwinch_passthrough thread
\* An ioctl on a terminal with a window-size request: TIOCSWINSZ stores the
\* argument, TIOCGWINSZ only reads.  Yields the terminal's size afterwards.
ioctl_winsize(request, cur, arg) ==
    IF request = "TIOCSWINSZ" THEN arg ELSE cur

\* nix::ioctl_write_ptr_bad!(_set_window_size, TIOCGWINSZ, Winsize);
set_winsize(cur, w) == ioctl_winsize("TIOCGWINSZ", cur, w)

\* The real terminal is resized while the thread listens: SIGWINCH is queued
\* for it (signals arriving while one is queued coalesce).
Resize ==
    /\ fpc # "off"
    /\ resizes < MaxResize
    /\ resizes' = resizes + 1
    /\ \E w \in WinSizes \ {realWin} : realWin' = w
    /\ sigPending' = TRUE
    /\ UNCHANGED <<optVars, setupVars, ppc, ret, childVars, termVars, fds, fpc,
                   fwin, winchSent, fwdAfterClose, ptyWin, ioVars, loopVars>>

\* for _ in &mut signals { if let Some(winsize) = get_winsize(STDIN_FILENO) { .. } }
F_Wake ==
    /\ fpc = "idle"
    /\ sigPending
    /\ sigPending' = FALSE
    /\ IF get_winsize # NoSize
       THEN fwin' = get_winsize /\ fpc' = "set"
       ELSE UNCHANGED <<fwin, fpc>>
    /\ UNCHANGED <<optVars, setupVars, ppc, ret, childVars, termVars, fds, resizes, realWin, winchSent, fwdAfterClose, ptyWin, ioVars, loopVars>>

\* set_winsize(master, winsize).ok();
F_SetWinsize ==
    /\ fpc = "set"
    /\ ptyWin' = set_winsize(ptyWin, fwin)
    /\ fwdAfterClose' = (fwdAfterClose \/ fds["pm"] = "closed")
    /\ fpc' = "pgrp"
    /\ UNCHANGED <<optVars, setupVars, ppc, ret, childVars, termVars, fds, fwin,
                   sigPending, resizes, realWin, winchSent, ioVars, loopVars>>

\* if let Ok(pgrp) = tcgetpgrp(master) { killpg(pgrp, Signal::SIGWINCH).ok(); }
\* Either call may fail; neither failure is looked at.
F_Signal ==
    /\ fpc = "pgrp"
    /\ fwdAfterClose' = (fwdAfterClose \/ fds["pm"] = "closed")
    /\ \E pgrp \in BOOLEAN, killed \in BOOLEAN :
         winchSent' = (winchSent \/ (pgrp /\ killed))
    /\ fpc' = "idle"
    /\ fwin' = NoSize
    /\ UNCHANGED <<optVars, setupVars, ppc, ret, childVars, termVars, fds,
                   sigPending, resizes, realWin, ptyWin, ioVars, loopVars>>

\* ------------------------------------------------------ specification
Parent ==
    \/ P_Tcgetattr \/ P_Openpty \/ P_RawMode \/ P_Mkfifo \/ P_Fork
    \/ P_CloseSlave \/ P_Sigwinch \/ P_OpenOut \/ P_OpenIn
    \/ P_Select \/ P_ReadStdin \/ P_ReadCtl \/ P_ReadMaster
    \/ P_WriteLog \/ P_WriteStdout \/ P_Waitpid \/ P_CloseMaster

Child == C_Exec \/ C_Exit

Forwarder == F_Wake \/ F_SetWinsize \/ F_Signal

Next == Parent \/ Child \/ Forwarder \/ Resize

Spec == Init /\ [][Next]_vars

\* ============================================================== claims
\* Positions inside the `loop { .. }` of communication_loop, and the places
\* inside it where an error can be returned from.
LoopPcs == {"select", "rd_stdin", "rd_ctl", "rd_master", "wr_log", "wr_stdout"}
LoopSites == {"select", "rd_stdin", "wr_eof", "wr_master_stdin", "rd_ctl",
              "wr_master_ctl", "rd_master", "wr_log", "wr_stdout"}
AfterLoop == {"waitpid", "close_master"}

InLoop == ppc \in LoopPcs
LoopError == ppc = "returned" /\ ret.kind = "err" /\ ret.at \in LoopSites
LoopEntered ==
    \/ ppc \in LoopPcs \cup AfterLoop
    \/ ppc = "returned" /\ ret.at \in LoopSites \cup AfterLoop
LoopEnded == LoopEntered /\ ~InLoop

\* ------------------------------------------------------------------ C1
\* C1 (as stated): the relay loop has stopped iterating if and only if a
\* read on the PTY master returned zero bytes; nothing else ends it.
C1_EndsIffMasterEof ==
    LoopEntered => (LoopEnded <=> masterEOF)

\* C1 (amended): the relay loop stops iterating in exactly two ways: a read on
\* the PTY master returns zero bytes, which always ends it, or a syscall fails
\* with an error that communication_loop returns.  An EINTR or EAGAIN from
\* select or from the reads of stdin and of the master is never such an error.
C1_EndsByMasterEofOrError ==
    LoopEntered =>
        /\ LoopEnded <=> (masterEOF \/ LoopError)
        /\ masterEOF => ~LoopError
        /\ (LoopError /\ ret.at \in {"select", "rd_stdin", "rd_master"})
               => ret.val \notin Transient

\* The loop went on past a stdin EOF and was ended by the master's EOF.
C1_Witness ==
    /\ ppc = "waitpid"
    /\ masterEOF
    /\ ~read_stdin
    /\ reads > 0

\* ------------------------------------------------------------------ C2
\* C2: with a log file configured, at the top of every cycle of the loop the
\* chunks written to stdout so far and the chunks appended to the log so far
\* are the same chunks in the same order.
C2_StdoutEqualsLog ==
    (out_file = "open" /\ ppc = "select") => stdoutW = logW

\* A chunk went to both sinks.
C2_Witness ==
    /\ out_file = "open"
    /\ ppc = "select"
    /\ Len(stdoutW) > 0

\* ------------------------------------------------------------------ C3
\* C3: attached to a real terminal, and as long as no error has ended the
\* session, the stdin bytes written to the master are exactly the bytes read
\* from stdin, in order, and at most one end-of-file character was appended.
C3_StdinForwardedVerbatim ==
    (is_tty /\ LoopEntered /\ ret.kind # "err") =>
        /\ FromSrc(masterW, "stdin") = Bytes(0, stdinRead)
        /\ Len(FromSrc(masterW, "eof")) <= 1

\* ------------------------------------------------------------------ C4
\* C4: when stdin is not a terminal, then after the zero-length read on stdin
\* every chunk read from the master is still relayed whole to stdout: the
\* stdout write that ends a cycle has put the chunk in `buf` on stdout.
C4_NonTtyEofKeepsRelaying ==
    [][(~is_tty /\ ~read_stdin /\ ppc = "wr_stdout" /\ ppc' = "select")
          => stdoutW' = Append(stdoutW, buf)]_vars

\* ------------------------------------------------------------------ C5
\* C5: the value spawn returns is the translation of the child's wait status:
\* Exited(N) gives N, Signaled(S) gives 128 + S, anything else gives 1; and
\* a value is only returned once the master's EOF ended the loop and the
\* child was waited for.
C5_ReturnIsTranslatedStatus ==
    (ppc = "returned" /\ ret.kind = "ok") =>
        /\ masterEOF /\ reaped
        /\ wstatus[1] = "Exited" => ret.val = wstatus[2]
        /\ wstatus[1] = "Signaled" => ret.val = 128 + wstatus[2]
        /\ wstatus[1] \notin {"Exited", "Signaled"} => ret.val = 1

\* The child was killed by signal 9 and spawn returned 137.
C5_Witness ==
    /\ ppc = "returned"
    /\ ret.kind = "ok"
    /\ wstatus = <<"Signaled", 9>>
    /\ ret.val = 137

\* ------------------------------------------------------------------ C6
\* C6: with stdin a terminal, the saved attributes are re-applied to the real
\* terminal exactly once per invocation of spawn: never more than once, never
\* while the parent has not yet returned from spawn (so never before the
\* relay loop has ended), and always once the parent has returned.
C6_RestoredOnceAfterLoop ==
    restoreTerm =>
        /\ restores <= 1
        /\ restores > 0 => ppc = "returned"
        /\ ppc = "returned" => restores = 1

\* ------------------------------------------------------------------ C7
\* C7: opening the log with truncate_out succeeds (unless the file system
\* refuses the path) and leaves in the log exactly the session's output;
\* without truncate_out the session's output follows the prior content.
C7_TruncateOpenSucceeds ==
    /\ (opts.out_path /\ opts.truncate_out /\ out_file \notin {"none", "EACCES"})
           => (out_file = "open" /\ logFile = Flatten(logW))
    /\ (out_file = "open" /\ ~opts.truncate_out)
           => logFile = PriorLog \o Flatten(logW)

\* ------------------------------------------------------------------ C8
\* C8: with a control path configured, mkfifo_atomic answers Ok when the path
\* was absent (and the FIFO is then there) and when it already existed (an
\* existing path is left as it was, and EEXIST is never the answer); any other
\* failure makes spawn return that error with no child forked.
C8_FifoCreation ==
    (opts.in_path /\ mkfifoRes # "none") =>
        /\ mkfifoRes # "EEXIST"
        /\ mkfifoRes = "Ok" => fifo \in {"created", "existing"}
        /\ mkfifoRes # "Ok" =>
              /\ ppc = "returned" /\ ret.kind = "err" /\ ret.at = "mkfifo"
              /\ ret.val = mkfifoRes
              /\ forks = 0 /\ cpc = "none"

\* The path was there already, creation was not an error, and spawn forked.
C8_Witness ==
    /\ fifo = "existing"
    /\ mkfifoRes = "Ok"
    /\ forks = 1

\* ------------------------------------------------------------------ C9
\* C9: no syscall of the relay loop that fails with EINTR or EAGAIN makes
\* communication_loop return that error.
C9_TransientNeverSurfaces ==
    LoopError => ret.val \notin Transient

\* ----------------------------------------------------------------- C10
\* C10: once the forwarder has read the real terminal's size for a resize
\* notification and has called set_winsize, the PTY's window size is the
\* size it read.
C10_PtySizeFollowsResize ==
    fpc = "pgrp" => ptyWin = fwin

\* ----------------------------------------------------------------- C11
\* C11: when the attributes of stdin cannot be read, no terminal-related
\* action is taken in the whole session: the real terminal's mode is never
\* changed and never restored (by the parent or by the child), no guard
\* exists, no window size is read or given to openpty, and the resize
\* forwarder is never started (so no resize is ever forwarded).
C11_NoTerminalActionsWithoutTty ==
    ~stdinIsTty =>
        /\ ~term_attrs
        /\ termMode = "orig" /\ restores = 0 /\ ptyRestores = 0
        /\ ~restoreTerm
        /\ winsize = NoSize /\ ptyWin = NoSize
        /\ fpc = "off" /\ fwin = NoSize /\ ~sigPending /\ ~winchSent

\* A whole session without a terminal, on a stdin whose size could have been
\* read: spawn returned the child's code.
C11_Witness ==
    /\ ~stdinIsTty
    /\ winszOk
    /\ ppc = "returned"
    /\ ret.kind = "ok"

\* ----------------------------------------------------------------- C12
\* C12: with the control input open, it is in the read-interest set of every
\* cycle, and as long as no error has ended the session the control bytes
\* written to the master are exactly the bytes read from the control input,
\* in order (an empty read adding nothing).
C12_CtlForwardedVerbatim ==
    (in_file = "open" /\ LoopEntered) =>
        /\ InLoop => "ctl" \in Interest(ReadStdinFlag(read_stdin, is_tty))
        /\ ret.kind # "err" => FromSrc(masterW, "ctl") = Bytes(0, ctlRead)

\* ----------------------------------------------------------------- C13
\* C13: spawn forks at most once, and not again once the child has ended; a
\* child exists only after openpty and (with a control path) mkfifo_atomic
\* succeeded; when either fails spawn returns that error with no child and
\* with nothing relayed.
C13_OneForkAfterSetup ==
    /\ forks <= 1
    /\ (cpc = "none") <=> (forks = 0)
    /\ forks = 1 =>
          /\ fds["pm"] # "none"
          /\ opts.in_path => mkfifoRes = "Ok"
    /\ (ppc = "returned" /\ ret.at \in {"openpty", "mkfifo"}) =>
          /\ ret.kind = "err"
          /\ forks = 0
          /\ reads = 0 /\ ~masterEOF /\ out_file = "none" /\ in_file = "none"

\* PTY allocation failed: spawn returned the error and nothing was forked.
C13_Witness ==
    /\ ppc = "returned"
    /\ ret = [kind |-> "err", val |-> "EIO", at |-> "openpty"]
    /\ forks = 0

\* ----------------------------------------------------------------- C14
\* The read-interest set the next cycle builds from the flag as it is now.
NextInterest == Interest(ReadStdinFlag(read_stdin, is_tty))

\* C14 (as stated): once a zero-length stdin read has cleared the flag, stdin
\* is out of the next cycle's read-interest set when attached to a real
\* terminal, and in it when not.
C14_StdinDroppedOnTty ==
    (InLoop /\ ~read_stdin) => ("stdin" \in NextInterest <=> ~is_tty)

\* C14 (amended): the two cases are the other way round.  Attached to a real
\* terminal stdin is in the read-interest set of every cycle, a zero-length
\* read notwithstanding; not attached, once a zero-length read has cleared
\* the flag stdin is in no later read-interest set and is never read again.
C14_StdinDroppedWithoutTty ==
    InLoop =>
        /\ is_tty => "stdin" \in NextInterest
        /\ (~is_tty /\ ~read_stdin) =>
              /\ "stdin" \notin NextInterest
              /\ "stdin" \notin ready
              /\ ppc # "rd_stdin"

\* Attached to a terminal, a zero-length stdin read has just cleared the flag
\* and the loop goes on.
C14_Witness ==
    /\ is_tty
    /\ InLoop
    /\ ~read_stdin
    /\ arm[1] = "eof"

\* ----------------------------------------------------------------- C15
\* C15: on a zero-length read from stdin the loop issues the write of the
\* PTY's end-of-file character to the master if and only if tcgetattr(master)
\* answered attributes with ICANON set.  Issued, the write puts exactly that
\* one character on the master, or its failure is returned with nothing
\* written; not issued, the master gets nothing for that read and the loop
\* goes on.
C15_EofCharIffCanonical ==
    [][(ppc = "rd_stdin" /\ arm'[1] = "eof") =>
          IF arm'[2] = "icanon"
          THEN \/ /\ masterW' = Append(masterW, <<"eof", EofChar>>)
                  /\ ppc' # "returned"
               \/ /\ masterW' = masterW
                  /\ ppc' = "returned" /\ ret'.kind = "err" /\ ret'.at = "wr_eof"
          ELSE /\ masterW' = masterW
               /\ ppc' # "returned"]_vars

\* Stdin ended with the PTY in canonical mode: the end-of-file character is
\* on the master and the loop goes on.
C15_Witness ==
    /\ arm = <<"eof", "icanon">>
    /\ ppc # "returned"
    /\ FromSrc(masterW, "eof") = <<EofChar>>

\* ----------------------------------------------------------------- C16
\* C16: with a log file configured, a chunk is in the log before it is
\* written to stdout, and it is fully handled before the next master read:
\* at every point the bytes on stdout are a prefix of the session's log
\* bytes, the chunk about to go to stdout is the last one logged, and when
\* the master is read again all bytes read from it so far are in both sinks.
C16_LogThenStdoutWholeChunks ==
    out_file = "open" =>
        /\ IsPrefix(Flatten(stdoutW), Flatten(logW))
        /\ ppc = "wr_stdout" => (logW # <<>> /\ logW[Len(logW)] = buf)
        /\ ppc = "rd_master" =>
              /\ Flatten(logW) = Bytes(0, outRead)
              /\ Flatten(stdoutW) = Bytes(0, outRead)

\* ----------------------------------------------------------------- C17
\* C17: no PTY descriptor is ever closed twice, and when spawn has finished
\* in a process, every PTY descriptor that process held has been closed:
\* master and slave in the parent, master and slave in a child that returned
\* from spawn.
C17_EachFdClosedOnce ==
    /\ \A d \in DOMAIN fds : fds[d] # "closed_twice"
    /\ ppc = "returned" =>
          /\ fds["pm"] \in {"none", "closed"}
          /\ fds["ps"] \in {"none", "closed"}
    /\ cpc = "c_returned" =>
          /\ fds["cm"] = "closed"
          /\ fds["cs"] = "closed"

\* ----------------------------------------------------------------- C18
\* C18: after a successful fork, whenever spawn has returned in the parent
\* the child has been waited for and the master has been closed.
C18_ReturnedMeansReaped ==
    (ppc = "returned" /\ forks = 1) =>
        /\ reaped
        /\ fds["pm"] = "closed"

\* ----------------------------------------------------------------- C19
\* C19: a select that times out with nothing ready reads and writes no byte
\* on stdin, the control input, the master, the log or stdout, does not end
\* the session, and leaves the loop at the top of its next cycle.
C19_TimeoutIsOnlyAWake ==
    [][(ppc = "select" /\ arm'[1] = "timeout") =>
          /\ ppc' = "select"
          /\ ready' = {}
          /\ ret' = ret
          /\ UNCHANGED <<reads, stdinRead, ctlRead, outRead, masterW, logFile,
                         logW, stdoutW, buf, masterEOF>>]_vars

\* A timeout in the middle of a session: output was relayed before it and
\* the loop is at the top of the next cycle.
C19_Witness ==
    /\ ppc = "select"
    /\ arm[1] = "timeout"
    /\ Len(stdoutW) > 0

\* ----------------------------------------------------------------- C20
\* C20: the forwarder thread never issues set_winsize, tcgetpgrp or killpg
\* on the master descriptor number after the parent has closed the master.
C20_NoForwarderUseAfterClose ==
    ~fwdAfterClose

====
